---- MODULE Spec2Model ----
(***************************************************************************)
(* Model of train.py of scaling_mlps: the epoch loop of main() with its    *)
(* reload, checkpointing and logging steps (specification Spec), and one   *)
(* pass of train() / test() over a data stream at batch granularity        *)
(* (specification SpecPass).                                               *)
(*                                                                         *)
(* Abstractions.  Tensors are not modelled: a model's parameter state is   *)
(* identified by where it came from (src) and how many training passes     *)
(* have mutated it (passes); a test accuracy is an integer 0..MaxAcc       *)
(* chosen by the environment; a loss value is an integer; a mixing weight  *)
(* w is the integer w * WScale, so the loss variable holds WScale times    *)
(* the loss of the code.  External calls that can raise (wandb, the data   *)
(* loaders, torch.save) either return or raise, chosen nondeterminis-      *)
(* tically.  torch.save(obj, path) opens path for writing and then writes, *)
(* so a save is two steps with the file incomplete in between.             *)
(***************************************************************************)
EXTENDS Integers, Sequences, FiniteSets, TLC

\* ---------------------------------------------------------------- bounds
MaxEpochs == 4
MaxFreq == 2
MaxAcc == 2
MaxBatches == 2
MaxLoss == 2
WScale == 2

\* Values get_compute may return (external; any positive cost).
ComputeVals == {2, 3}

VARIABLES
    args,               \* the parsed configuration (read-only)
    pc,                 \* position of the process in main / train / test
    dir_exists,         \* os.path.exists(path)
    optimal_params,     \* the file path + "/optimal_params"
    model,              \* parameter state of the model
    start_ep,
    load_state,         \* "not_attempted" | "ok" | "failed"
    loaded_acc,         \* test accuracy of the checkpoint that was reloaded
                        \* (what an earlier run measured for it), or -1
    opt_built,          \* optimizer, scheduler and loss_fn constructed
    optimal_acc,
    compute_per_epoch,
    ep,
    calc_stats,
    current_compute,
    test_acc,
    writing,            \* name of the file torch.save has open, or NoName
    saved,              \* names of the completed torch.save calls, in order
    trainLog,           \* epoch indices for which train() returned, in order
    evalAccs,           \* test accuracies returned by test(), in order
    raised,             \* what ended the process abnormally, or "none"
    tp,                 \* counters of the current pass of train() / test()
    batch,              \* the current batch: its mixing weight and the
                        \* values loss_fn takes on its two label columns
    loss,               \* loss of the current batch (times WScale)
    targs_perm          \* secondary labels handed to topk_acc, or "None"

vars == <<args, pc, dir_exists, optimal_params, model, start_ep, load_state, loaded_acc,
          opt_built, optimal_acc, compute_per_epoch, ep, calc_stats,
          current_compute, test_acc, writing, saved, trainLog, evalAccs,
          raised, tp, batch, loss, targs_perm>>

mainVars == <<dir_exists, optimal_params, model, start_ep, load_state, loaded_acc,
              opt_built, optimal_acc, compute_per_epoch, ep, calc_stats,
              current_compute, test_acc, writing, saved, trainLog, evalAccs>>

passVars == <<tp, batch, loss, targs_perm>>

\* ----------------------------------------------------------- file system
NoName == [kind |-> "none", ep |-> 0, compute |-> 0]
OptimalName == [kind |-> "optimal_params", ep |-> 0, compute |-> 0]
EpochName(e, c) == [kind |-> "epoch", ep |-> e, compute |-> c]

AbsentFile == [st |-> "absent", src |-> "none", passes |-> 0, acc |-> -1]
PartialFile == [st |-> "partial", src |-> "none", passes |-> 0, acc |-> -1]
CompleteFile(m, a) ==
    [st |-> "complete", src |-> m.src, passes |-> m.passes, acc |-> a]

FreshModel == [src |-> "fresh", passes |-> 0]
PriorModel == [src |-> "prior", passes |-> 0]
GarbledModel == [src |-> "partial_restore", passes |-> 0]

\* ------------------------------------------------------------ pass state
IdleBatch == [weight |-> 0, l_primary |-> 0, l_perm |-> 0]
IdlePass == [stream |-> 0, it |-> 0, zeroed |-> 0, stepped |-> 0,
             clipped |-> 0, sched |-> 0]

\* ------------------------------------------------------- pure operators
\* range(start_ep, args.epochs): the epoch indices the loop visits.
EpochRange(start, n) == start .. (n - 1)

\* The index the loop's iterator yields after e (0: nothing yielded yet).
NextEpoch(start, e) == IF e = 0 THEN start ELSE e + 1

CalcStats(e, a) == (e + 1) % a.calculate_stats = 0

CurrentCompute(cpe, e) == cpe * e

\* Variant: save on the multiples of save_freq.
SaveOnMultiples(e, a) == (e % a.save_freq = 0) /\ a.save

\* ep % args.save_freq and args.save
SavePeriodic(e, a) == (e % a.save_freq # 0) /\ a.save

\* Variant: a tie counts as an improvement.
IsBetterOrEqual(t, o) == t >= o

\* test_acc > optimal_acc
IsBetter(t, o) == t > o

\* What is read back from optimal_params: only a complete file deserializes.
Loadable(f) == f.st = "complete"

\* ------------------------------------------------------------- main()
Abort(cause) == pc' = "aborted" /\ raised' = cause

\* if not os.path.exists(path): os.makedirs(path); write config.txt
EnsureDir ==
    /\ pc = "mkdir"
    /\ dir_exists' = TRUE
    /\ pc' = "reload"
    /\ UNCHANGED <<args, optimal_params, model, start_ep, load_state, loaded_acc,
                   opt_built, optimal_acc, compute_per_epoch, ep, calc_stats,
                   current_compute, test_acc, writing, saved, trainLog,
                   evalAccs, raised, passVars>>

\* Variant: no handler around the load, a failing load ends the run.
ReloadStrict ==
    /\ pc = "reload"
    /\ start_ep' = 1
    /\ IF args.reload
          THEN \/ /\ Loadable(optimal_params)
                  /\ model' = PriorModel
                  /\ load_state' = "ok"
                  /\ loaded_acc' = optimal_params.acc
                  /\ pc' = "build_opt"
                  /\ raised' = raised
               \/ /\ model' = model
                  /\ load_state' = "failed"
                  /\ loaded_acc' = loaded_acc
                  /\ pc' = "aborted"
                  /\ raised' = "load"
          ELSE /\ model' = model
               /\ load_state' = "not_attempted"
               /\ loaded_acc' = loaded_acc
               /\ pc' = "build_opt"
               /\ raised' = raised
    /\ UNCHANGED <<args, dir_exists, optimal_params, opt_built, optimal_acc,
                   compute_per_epoch, ep, calc_stats, current_compute,
                   test_acc, writing, saved, trainLog, evalAccs, passVars>>

\* start_ep = 1; if args.reload: try: load ... except: print(...)
\* The bare except swallows every failure of torch.load and of
\* load_state_dict; the latter may have copied some tensors before raising.
Reload ==
    /\ pc = "reload"
    /\ start_ep' = 1
    /\ IF args.reload
          THEN \/ /\ Loadable(optimal_params)
                  /\ model' = PriorModel
                  /\ load_state' = "ok"
                  /\ loaded_acc' = optimal_params.acc
               \/ /\ ~Loadable(optimal_params)
                  /\ model' = model
                  /\ load_state' = "failed"
                  /\ loaded_acc' = loaded_acc
               \/ /\ Loadable(optimal_params)
                  /\ model' \in {model, GarbledModel}
                  /\ load_state' = "failed"
                  /\ loaded_acc' = loaded_acc
          ELSE /\ model' = model
               /\ load_state' = "not_attempted"
               /\ loaded_acc' = loaded_acc
    /\ pc' = "build_opt"
    /\ UNCHANGED <<args, dir_exists, optimal_params, opt_built, optimal_acc,
                   compute_per_epoch, ep, calc_stats, current_compute,
                   test_acc, writing, saved, trainLog, evalAccs, raised,
                   passVars>>

\* opt = get_optimizer(...); scheduler = get_scheduler(...); loss_fn = ...
BuildOptimizer ==
    /\ pc = "build_opt"
    /\ opt_built' = TRUE
    /\ pc' = "wandb_init"
    /\ UNCHANGED <<args, dir_exists, optimal_params, model, start_ep,
                   load_state, loaded_acc, optimal_acc, compute_per_epoch, ep, calc_stats,
                   current_compute, test_acc, writing, saved, trainLog,
                   evalAccs, raised, passVars>>

\* if args.wandb: wandb.init(...)      (no handler around it)
WandbInit ==
    /\ pc = "wandb_init"
    /\ \/ pc' = "get_compute" /\ raised' = raised
       \/ args.wandb /\ Abort("wandb_init")
    /\ UNCHANGED <<args, mainVars, passVars>>

\* Variant: the record resumes from the accuracy of the reloaded checkpoint.
GetComputeResumeRecord ==
    /\ pc = "get_compute"
    /\ optimal_acc' = loaded_acc
    /\ compute_per_epoch' \in ComputeVals
    /\ pc' = "loop_head"
    /\ UNCHANGED <<args, dir_exists, optimal_params, model, start_ep,
                   load_state, loaded_acc, opt_built, ep, calc_stats,
                   current_compute, test_acc, writing, saved, trainLog,
                   evalAccs, raised, passVars>>

\* optimal_acc = -1; compute_per_epoch = get_compute(...)
GetCompute ==
    /\ pc = "get_compute"
    /\ optimal_acc' = -1
    /\ compute_per_epoch' \in ComputeVals
    /\ pc' = "loop_head"
    /\ UNCHANGED <<args, dir_exists, optimal_params, model, start_ep,
                   load_state, loaded_acc, opt_built, ep, calc_stats, current_compute,
                   test_acc, writing, saved, trainLog, evalAccs, raised,
                   passVars>>

\* for ep in range(start_ep, args.epochs): calc_stats = ...; current_compute = ...
LoopHead ==
    /\ pc = "loop_head"
    /\ IF NextEpoch(start_ep, ep) \in EpochRange(start_ep, args.epochs)
          THEN /\ ep' = NextEpoch(start_ep, ep)
               /\ calc_stats' = CalcStats(ep', args)
               /\ current_compute' = CurrentCompute(compute_per_epoch, ep')
               /\ pc' = "train"
          ELSE /\ pc' = "done"
               /\ UNCHANGED <<ep, calc_stats, current_compute>>
    /\ UNCHANGED <<args, dir_exists, optimal_params, model, start_ep,
                   load_state, loaded_acc, opt_built, optimal_acc, compute_per_epoch,
                   test_acc, writing, saved, trainLog, evalAccs, raised,
                   passVars>>

\* train_acc, ... = train(model, opt, scheduler, loss_fn, ep, train_loader, args)
\* The call returns after a whole pass, or a batch raises and the exception
\* leaves main.  Either way the pass has worked on the parameters.
TrainCall ==
    /\ pc = "train"
    /\ model' = [model EXCEPT !.passes = @ + 1]
    /\ \/ /\ trainLog' = Append(trainLog, ep)
          /\ pc' = "log_train"
          /\ raised' = raised
       \/ /\ trainLog' = trainLog
          /\ Abort("train")
    /\ UNCHANGED <<args, dir_exists, optimal_params, start_ep, load_state, loaded_acc,
                   opt_built, optimal_acc, compute_per_epoch, ep, calc_stats,
                   current_compute, test_acc, writing, saved, evalAccs,
                   passVars>>

\* if args.wandb: wandb.log({...})     (no handler around it)
LogTrain ==
    /\ pc = "log_train"
    /\ \/ pc' = "save_epoch" /\ raised' = raised
       \/ args.wandb /\ Abort("wandb_log")
    /\ UNCHANGED <<args, mainVars, passVars>>

\* if ep % args.save_freq and args.save: torch.save(..., epoch_<ep>_compute_<c>)
SaveEpochBegin ==
    /\ pc = "save_epoch"
    /\ IF SavePeriodic(ep, args)
          THEN /\ writing' = EpochName(ep, current_compute)
               /\ pc' = "save_epoch_write"
          ELSE /\ writing' = writing
               /\ pc' = "calc"
    /\ UNCHANGED <<args, dir_exists, optimal_params, model, start_ep,
                   load_state, loaded_acc, opt_built, optimal_acc, compute_per_epoch, ep,
                   calc_stats, current_compute, test_acc, saved, trainLog,
                   evalAccs, raised, passVars>>

SaveEpochEnd ==
    /\ pc = "save_epoch_write"
    /\ saved' = Append(saved, writing)
    /\ writing' = NoName
    /\ pc' = "calc"
    /\ UNCHANGED <<args, dir_exists, optimal_params, model, start_ep,
                   load_state, loaded_acc, opt_built, optimal_acc, compute_per_epoch, ep,
                   calc_stats, current_compute, test_acc, trainLog, evalAccs,
                   raised, passVars>>

\* if calc_stats:
CheckCalcStats ==
    /\ pc = "calc"
    /\ pc' = IF calc_stats THEN "test" ELSE "loop_head"
    /\ UNCHANGED <<args, mainVars, raised, passVars>>

\* test_acc, ... = test(model, test_loader, loss_fn, args)
TestCall ==
    /\ pc = "test"
    /\ \/ /\ \E a \in 0 .. MaxAcc :
                /\ test_acc' = a
                /\ evalAccs' = Append(evalAccs, a)
          /\ pc' = "log_test"
          /\ raised' = raised
       \/ /\ UNCHANGED <<test_acc, evalAccs>>
          /\ Abort("test")
    /\ UNCHANGED <<args, dir_exists, optimal_params, model, start_ep,
                   load_state, loaded_acc, opt_built, optimal_acc, compute_per_epoch, ep,
                   calc_stats, current_compute, writing, saved, trainLog,
                   passVars>>

\* if args.wandb: wandb.log({...})     (no handler around it)
LogTest ==
    /\ pc = "log_test"
    /\ \/ pc' = "best" /\ raised' = raised
       \/ args.wandb /\ Abort("wandb_log")
    /\ UNCHANGED <<args, mainVars, passVars>>

\* if test_acc > optimal_acc: optimal_acc = test_acc
\*     if args.save: torch.save(model.state_dict(), path + "/optimal_params")
UpdateBestBegin ==
    /\ pc = "best"
    /\ IF IsBetter(test_acc, optimal_acc)
          THEN /\ optimal_acc' = test_acc
               /\ IF args.save
                     THEN /\ optimal_params' = PartialFile
                          /\ writing' = OptimalName
                          /\ pc' = "best_write"
                     ELSE /\ UNCHANGED <<optimal_params, writing>>
                          /\ pc' = "print"
          ELSE /\ UNCHANGED <<optimal_acc, optimal_params, writing>>
               /\ pc' = "print"
    /\ UNCHANGED <<args, dir_exists, model, start_ep, load_state, loaded_acc, opt_built,
                   compute_per_epoch, ep, calc_stats, current_compute,
                   test_acc, saved, trainLog, evalAccs, raised, passVars>>

UpdateBestEnd ==
    /\ pc = "best_write"
    /\ optimal_params' = CompleteFile(model, test_acc)
    /\ saved' = Append(saved, writing)
    /\ writing' = NoName
    /\ pc' = "print"
    /\ UNCHANGED <<args, dir_exists, model, start_ep, load_state, loaded_acc, opt_built,
                   optimal_acc, compute_per_epoch, ep, calc_stats,
                   current_compute, test_acc, trainLog, evalAccs, raised,
                   passVars>>

\* print("Epoch", ep, ...)
PrintStats ==
    /\ pc = "print"
    /\ pc' = "loop_head"
    /\ UNCHANGED <<args, mainVars, raised, passVars>>

MainPcs == {"mkdir", "reload", "build_opt", "wandb_init", "get_compute",
            "loop_head", "train", "log_train", "save_epoch",
            "save_epoch_write", "calc", "test", "log_test", "best",
            "best_write", "print"}

\* The process is interrupted (a signal, a failing write): nothing in main
\* handles it, and a file that torch.save has open stays as it is.
Interrupt ==
    /\ pc \in MainPcs
    /\ Abort("interrupt")
    /\ UNCHANGED <<args, mainVars, passVars>>

\* ------------------------------------------------------------ Spec: main
Args ==
    [epochs : 1 .. MaxEpochs,
     calculate_stats : 1 .. MaxFreq,
     save_freq : 1 .. MaxFreq,
     save : BOOLEAN,
     reload : BOOLEAN,
     wandb : BOOLEAN,
     mixup : {8},
     clip : {0}]

\* optimal_params as an earlier run of the same configuration may have left
\* it: never written, cut short, or complete.
PriorFiles ==
    {AbsentFile, PartialFile} \cup {CompleteFile(PriorModel, a) : a \in 0 .. MaxAcc}

Init ==
    /\ args \in Args
    /\ pc = "mkdir"
    /\ dir_exists \in BOOLEAN
    /\ optimal_params \in PriorFiles
    /\ ~dir_exists => optimal_params = AbsentFile
    /\ model = FreshModel
    /\ start_ep = 0
    /\ load_state = "not_attempted"
    /\ loaded_acc = -1
    /\ opt_built = FALSE
    /\ optimal_acc = 0
    /\ compute_per_epoch = 0
    /\ ep = 0
    /\ calc_stats = FALSE
    /\ current_compute = 0
    /\ test_acc = 0
    /\ writing = NoName
    /\ saved = <<>>
    /\ trainLog = <<>>
    /\ evalAccs = <<>>
    /\ raised = "none"
    /\ tp = IdlePass
    /\ batch = IdleBatch
    /\ loss = 0
    /\ targs_perm = "None"

Next ==
    \/ EnsureDir
    \/ Reload
    \/ BuildOptimizer
    \/ WandbInit
    \/ GetCompute
    \/ LoopHead
    \/ TrainCall
    \/ LogTrain
    \/ SaveEpochBegin
    \/ SaveEpochEnd
    \/ CheckCalcStats
    \/ TestCall
    \/ LogTest
    \/ UpdateBestBegin
    \/ UpdateBestEnd
    \/ PrintStats
    \/ Interrupt

Spec == Init /\ [][Next]_vars

\* --------------------------------------------------- train() and test()
\* Mixing weights a batch can carry when mixup is on: -1 (no mixing for the
\* batch) or a weight in [0, 1]; as multiples of 1 / WScale.
NoMixing == -WScale
Weights == {NoMixing} \cup (0 .. WScale)

\* Variant: the two weights exchanged.
TrainLossSwapped(mixup, w, lp, ls) ==
    IF mixup > 0
       THEN IF w # NoMixing
               THEN lp * (WScale - w) + ls * w
               ELSE lp * WScale
       ELSE lp * WScale

\* Lines 36-49 of train(): the loss of a batch, times WScale.
\* lp = loss_fn(preds, targs), ls = loss_fn(preds, targs_perm).
TrainLoss(mixup, w, lp, ls) ==
    IF mixup > 0
       THEN IF w # NoMixing
               THEN lp * w + ls * (WScale - w)
               ELSE lp * WScale
       ELSE lp * WScale

\* Lines 36-49 of train(): the secondary labels topk_acc receives.
ScoringPerm(mixup, w) ==
    IF mixup > 0
       THEN IF w # NoMixing THEN "perm" ELSE "None"
       ELSE "None"

\* start = time.time(); model.train(); the three AverageMeter()
TrainBegin ==
    /\ pc = "t_begin"
    /\ pc' = "t_iter"
    /\ UNCHANGED <<args, mainVars, raised, passVars>>

\* for ims, targs in tqdm(train_loader, ...):
TrainIter ==
    /\ pc = "t_iter"
    /\ IF tp.it < tp.stream
          THEN /\ tp' = [tp EXCEPT !.it = @ + 1]
               /\ \E w \in (IF args.mixup > 0 THEN Weights ELSE {0}) :
                     batch' = [weight |-> w, l_primary |-> 0, l_perm |-> 0]
               /\ pc' = "t_zero"
          ELSE /\ UNCHANGED <<tp, batch>>
               /\ pc' = "t_sched"
    /\ UNCHANGED <<args, mainVars, raised, loss, targs_perm>>

\* opt.zero_grad()
TrainZeroGrad ==
    /\ pc = "t_zero"
    /\ tp' = [tp EXCEPT !.zeroed = @ + 1]
    /\ pc' = "t_forward"
    /\ UNCHANGED <<args, mainVars, raised, batch, loss, targs_perm>>

\* preds = model(ims); the loss of lines 36-49; topk_acc(preds, targs, targs_perm)
TrainForward ==
    /\ pc = "t_forward"
    /\ \E lp \in 1 .. MaxLoss, ls \in 1 .. MaxLoss :
          /\ batch' = [batch EXCEPT !.l_primary = lp, !.l_perm = ls]
          /\ loss' = TrainLoss(args.mixup, batch.weight, lp, ls)
    /\ targs_perm' = ScoringPerm(args.mixup, batch.weight)
    /\ pc' = "t_backward"
    /\ UNCHANGED <<args, mainVars, raised, tp>>

\* loss.backward(); if args.clip > 0: clip_grad_norm_(...)
TrainBackward ==
    /\ pc = "t_backward"
    /\ tp' = [tp EXCEPT !.clipped = IF args.clip > 0 THEN @ + 1 ELSE @]
    /\ pc' = "t_step"
    /\ UNCHANGED <<args, mainVars, raised, batch, loss, targs_perm>>

\* Variant: the scheduler is stepped with every batch.
TrainOptStepSched ==
    /\ pc = "t_step"
    /\ tp' = [tp EXCEPT !.stepped = @ + 1, !.sched = @ + 1]
    /\ pc' = "t_iter"
    /\ UNCHANGED <<args, mainVars, raised, batch, loss, targs_perm>>

\* opt.step(); total_loss.update(...)
TrainOptStep ==
    /\ pc = "t_step"
    /\ tp' = [tp EXCEPT !.stepped = @ + 1]
    /\ pc' = "t_iter"
    /\ UNCHANGED <<args, mainVars, raised, batch, loss, targs_perm>>

\* end = time.time(); scheduler.step(); return (...)
TrainSchedStep ==
    /\ pc = "t_sched"
    /\ tp' = [tp EXCEPT !.sched = @ + 1]
    /\ pc' = "t_return"
    /\ UNCHANGED <<args, mainVars, raised, batch, loss, targs_perm>>

\* Any statement of the loop body raises: train() has no handler.
TrainRaise ==
    /\ pc \in {"t_zero", "t_forward", "t_backward", "t_step"}
    /\ pc' = "t_raised"
    /\ raised' = "train"
    /\ UNCHANGED <<args, mainVars, passVars>>

\* start = time.time(); model.eval(); the three AverageMeter()
TestBegin ==
    /\ pc = "e_begin"
    /\ pc' = "e_iter"
    /\ UNCHANGED <<args, mainVars, raised, passVars>>

\* for ims, targs in tqdm(loader, ...):
TestIter ==
    /\ pc = "e_iter"
    /\ IF tp.it < tp.stream
          THEN /\ tp' = [tp EXCEPT !.it = @ + 1]
               /\ batch' = IdleBatch
               /\ pc' = "e_batch"
          ELSE /\ UNCHANGED <<tp, batch>>
               /\ pc' = "e_return"
    /\ UNCHANGED <<args, mainVars, raised, loss, targs_perm>>

\* preds = model(ims); loss_fn(preds, targs); topk_acc(preds, targs, k=5)
TestBatch ==
    /\ pc = "e_batch"
    /\ \E lp \in 1 .. MaxLoss :
          /\ batch' = [batch EXCEPT !.l_primary = lp]
          /\ loss' = lp * WScale
    /\ targs_perm' = "None"
    /\ pc' = "e_iter"
    /\ UNCHANGED <<args, mainVars, raised, tp>>

TestRaise ==
    /\ pc = "e_batch"
    /\ pc' = "e_raised"
    /\ raised' = "test"
    /\ UNCHANGED <<args, mainVars, passVars>>

\* -------------------------------------------- SpecPass: one pass alone
PassArgs ==
    [epochs : {MaxEpochs},
     calculate_stats : {1},
     save_freq : {1},
     save : {FALSE},
     reload : {FALSE},
     wandb : {FALSE},
     mixup : {0, 8},
     clip : {0, 1}]

InitPass ==
    /\ args \in PassArgs
    /\ pc \in {"t_begin", "e_begin"}
    /\ dir_exists = TRUE
    /\ optimal_params = AbsentFile
    /\ model = FreshModel
    /\ start_ep = 1
    /\ load_state = "not_attempted"
    /\ loaded_acc = -1
    /\ opt_built = TRUE
    /\ optimal_acc = -1
    /\ compute_per_epoch \in ComputeVals
    /\ ep = 1
    /\ calc_stats = TRUE
    /\ current_compute = compute_per_epoch
    /\ test_acc = 0
    /\ writing = NoName
    /\ saved = <<>>
    /\ trainLog = <<>>
    /\ evalAccs = <<>>
    /\ raised = "none"
    /\ \E n \in 0 .. MaxBatches : tp = [IdlePass EXCEPT !.stream = n]
    /\ batch = IdleBatch
    /\ loss = 0
    /\ targs_perm = "None"

NextPass ==
    \/ TrainBegin
    \/ TrainIter
    \/ TrainZeroGrad
    \/ TrainForward
    \/ TrainBackward
    \/ TrainOptStep
    \/ TrainSchedStep
    \/ TrainRaise
    \/ TestBegin
    \/ TestIter
    \/ TestBatch
    \/ TestRaise

SpecPass == InitPass /\ [][NextPass]_vars

\* ================================================================ claims
Range(q) == {q[i] : i \in 1 .. Len(q)}

MaxOf(S) == CHOOSE x \in S : \A y \in S : y <= x

Front(q) == SubSeq(q, 1, Len(q) - 1)

\* How many completed torch.save calls wrote the file named n.
Writes(n) == Cardinality({i \in 1 .. Len(saved) : saved[i] = n})

StrictlyImproving(q) == \A i \in 2 .. Len(q) : q[i] > q[i - 1]

LoopPcs == {"loop_head", "train", "log_train", "save_epoch",
            "save_epoch_write", "calc", "test", "log_test", "best",
            "best_write", "print", "done"}

\* C1: when a run with epochs = N ends without failure, train() has
\* returned exactly once for each of the epochs 1, 2, ..., N, in
\* increasing order.
C1_TrainsEpochsOneToN ==
    pc = "done" => trainLog = [i \in 1 .. args.epochs |-> i]

\* C2: with saving on, epochs = 3 and calculate_stats = 1, a run in which
\* every evaluation strictly improves on the previous one has written
\* optimal_params exactly 3 times when it ends.
C2_ThreeBestCheckpoints ==
    (/\ pc = "done"
     /\ args.save
     /\ args.epochs = 3
     /\ args.calculate_stats = 1
     /\ StrictlyImproving(evalAccs))
    => Writes(OptimalName) = 3

\* The accuracies UpdateBest has already compared with the record.
Compared == IF pc \in {"log_test", "best"} THEN Front(evalAccs) ELSE evalAccs

BestOf(q) == MaxOf({-1} \cup Range(q))

C3_Record ==
    /\ pc \in LoopPcs => optimal_acc = BestOf(Compared)
    /\ (pc = "aborted" /\ evalAccs # <<>>)
          => optimal_acc \in {BestOf(evalAccs), BestOf(Front(evalAccs))}

C3_Step ==
    /\ pc # "get_compute" => optimal_acc' >= optimal_acc
    /\ (pc # "get_compute" /\ optimal_acc' # optimal_acc)
          => (pc = "best" /\ test_acc > optimal_acc /\ optimal_acc' = test_acc)
    /\ (pc = "best" /\ test_acc <= optimal_acc)
          => UNCHANGED <<optimal_acc, optimal_params, saved, writing>>

\* C3: the best-accuracy record starts at -1, never decreases, changes only
\* at an evaluation whose test accuracy is strictly greater than the record
\* (a tie leaves the record and the optimal_params file untouched), and
\* after each evaluation equals the maximum of -1 and every test accuracy
\* evaluated so far.
C3_BestRecordIsRunningMax == [] C3_Record /\ [][C3_Step]_vars

\* Three evaluations, rising then falling: the record stays at the peak.
C3_Witness ==
    /\ pc = "print"
    /\ Len(evalAccs) = 3
    /\ evalAccs[1] < evalAccs[2]
    /\ evalAccs[3] < evalAccs[2]
    /\ optimal_acc = evalAccs[2]

\* C4: after an interruption or failure, a checkpoint file that had been
\* completely written before still holds complete content (the old one or
\* the new one), never a partial one.
C4_NoPartialCheckpointAfterFailure ==
    (pc = "aborted" /\ Writes(OptimalName) > 0)
    => optimal_params.st = "complete"

\* C5: a failure of the logging sink (wandb.init or wandb.log raising)
\* does not end the run.
C5_LoggingFailureDoesNotAbort ==
    ~(pc = "aborted" /\ raised \in {"wandb_init", "wandb_log"})

C6_State ==
    /\ pc \notin {"mkdir", "reload", "aborted"}
          => /\ start_ep = 1
             /\ (load_state = "not_attempted") <=> ~args.reload
    /\ ~args.reload => (load_state = "not_attempted" /\ model.src = "fresh")
    /\ pc \in ({"wandb_init", "get_compute"} \cup LoopPcs) => opt_built
    /\ trainLog # <<>> => trainLog[1] = 1

C6_Step ==
    /\ pc = "reload"
          => \/ pc' = "build_opt" /\ start_ep' = 1 /\ raised' = "none"
             \/ raised' = "interrupt"
    /\ (pc = "loop_head" /\ ep = 0 /\ pc' = "train") => ep' = 1

\* C6: with the reload flag set, a load of optimal_params that fails (file
\* absent or incomplete, or restoring the state raising) does not end the
\* run: main goes on to build the optimizer and scheduler and the epoch
\* loop starts at epoch 1, as without reload; with the flag unset no load
\* is attempted.
C6_FailedReloadContinues == [] C6_State /\ [][C6_Step]_vars

C6_Witness ==
    /\ args.reload
    /\ load_state = "failed"
    /\ opt_built
    /\ pc = "log_train"
    /\ trainLog = <<1>>

\* Epoch e has gone through the periodic-save statement of the loop body.
PastSave(e) ==
    \/ e < ep
    \/ e = ep /\ pc \in {"calc", "test", "log_test", "best", "best_write",
                         "print", "loop_head", "done"}

\* C8: the periodic checkpoint epoch_<ep>_compute_<compute_per_epoch * ep>
\* is written, once and after training epoch ep, exactly when saving is on
\* and ep is not a multiple of save_freq; under no other name and in no
\* other epoch is a periodic checkpoint written.
C8_PeriodicCheckpointCadence ==
    /\ \A i \in 1 .. Len(saved) :
          saved[i].kind = "epoch"
             => /\ saved[i].compute = compute_per_epoch * saved[i].ep
                /\ args.save
                /\ saved[i].ep % args.save_freq # 0
                /\ saved[i].ep \in Range(trainLog)
    /\ pc # "aborted" =>
          \A e \in 1 .. MaxEpochs :
             Writes([kind |-> "epoch", ep |-> e,
                     compute |-> compute_per_epoch * e])
                = IF PastSave(e) /\ args.save /\ e % args.save_freq # 0
                     THEN 1 ELSE 0

C8_Witness ==
    /\ pc = "done"
    /\ args.save
    /\ args.save_freq = 2
    /\ Len(trainLog) = 3
    /\ Writes(EpochName(1, compute_per_epoch)) = 1
    /\ Writes(EpochName(2, compute_per_epoch * 2)) = 0
    /\ Writes(EpochName(3, compute_per_epoch * 3)) = 1

\* C10: the record is not restored on resume.  The loop is entered with
\* optimal_acc = -1 also after a successful reload, so with saving on the
\* first evaluation of the run writes optimal_params from the current
\* parameters whatever its accuracy.
C10_FirstEvalOverwritesBest ==
    /\ (pc = "loop_head" /\ ep = 0) => optimal_acc = -1
    /\ (args.save /\ pc = "print" /\ Len(evalAccs) = 1)
          => /\ optimal_params = CompleteFile(model, test_acc)
             /\ Writes(OptimalName) = 1

\* A resumed run has replaced the reloaded checkpoint by a worse one.
C10_Witness ==
    /\ load_state = "ok"
    /\ args.save
    /\ pc = "print"
    /\ Len(evalAccs) = 1
    /\ optimal_params = CompleteFile(model, test_acc)
    /\ optimal_params.acc < loaded_acc

\* C7: in train() with mixup > 0 the loss of a batch with mixing weight w
\* is w * loss(preds, primary) + (1 - w) * loss(preds, secondary); for
\* w = 1 that is the plain loss against the primary labels; for w = -1 the
\* loss is the plain loss and accuracy scoring receives no secondary
\* labels; with mixup = 0 the loss is always the plain loss.  (loss is
\* held times WScale, w as w * WScale.)
C7_MixupLoss ==
    pc = "t_backward" =>
       LET w == batch.weight
           lp == batch.l_primary
           ls == batch.l_perm
       IN  /\ (args.mixup > 0 /\ w >= 0)
                => loss = w * lp + (WScale - w) * ls
           /\ (args.mixup > 0 /\ w = WScale) => loss = WScale * lp
           /\ (args.mixup > 0 /\ w = -WScale)
                => (loss = WScale * lp /\ targs_perm = "None")
           /\ args.mixup = 0 => (loss = WScale * lp /\ targs_perm = "None")

C7_Witness ==
    /\ pc = "t_backward"
    /\ args.mixup > 0
    /\ batch.weight = WScale
    /\ batch.l_primary # batch.l_perm
    /\ loss = WScale * batch.l_primary

TestPassPcs == {"e_begin", "e_iter", "e_batch", "e_return", "e_raised"}

\* C9: in a training pass over B batches the optimizer is zeroed and
\* stepped once per batch, zero_grad before the forward pass and step after
\* backward; the scheduler is stepped once, after all B batches; if a batch
\* raises, the scheduler is not stepped and the exception leaves the pass;
\* an evaluation pass steps neither optimizer nor scheduler.
C9_StepsPerPass ==
    /\ pc \in {"t_begin", "t_iter", "t_sched"}
          => (tp.zeroed = tp.it /\ tp.stepped = tp.it /\ tp.sched = 0)
    /\ pc = "t_zero"
          => (tp.zeroed = tp.it - 1 /\ tp.stepped = tp.it - 1 /\ tp.sched = 0)
    /\ pc \in {"t_forward", "t_backward", "t_step"}
          => (tp.zeroed = tp.it /\ tp.stepped = tp.it - 1 /\ tp.sched = 0)
    /\ pc = "t_sched" => tp.it = tp.stream
    /\ pc = "t_return"
          => (tp.zeroed = tp.stream /\ tp.stepped = tp.stream /\ tp.sched = 1)
    /\ pc = "t_raised"
          => (tp.sched = 0 /\ raised = "train" /\ tp.zeroed <= tp.stream)
    /\ pc \in TestPassPcs
          => (tp.zeroed = 0 /\ tp.stepped = 0 /\ tp.sched = 0)
    /\ pc = "e_return" => tp.it = tp.stream

C9_Witness ==
    /\ pc = "t_return"
    /\ tp.stream >= 2
    /\ tp.stepped = tp.stream
    /\ tp.sched = 1

====
